---- MODULE Spec2Model ----
(***************************************************************************)
(* A model of ydt: the Youdao lookup library (src/src/lib.rs) and the      *)
(* string-based binary (src/src/main.rs).                                  *)
(*                                                                         *)
(* Four specifications share one set of variables:                         *)
(*   SpecFetch  get_translation's network half in lib.rs:                  *)
(*              fetch_with_fallback, then response.text()                  *)
(*   SpecParse  parse_translation_from_html on bounded words and documents *)
(*   SpecCache  concurrent callers of cached_selector on OnceLock cells    *)
(*   SpecMain   the process boundary of main.rs                            *)
(* A variable a specification does not use keeps its initial value.        *)
(*                                                                         *)
(* Strings are sequences of tokens: a token stands for a run of            *)
(* characters (" " for one space, "\n" for one newline), and concatenation *)
(* of strings is concatenation of sequences.                               *)
(***************************************************************************)
EXTENDS Integers, Sequences, FiniteSets, TLC

VARIABLES
    pc,            \* position of the modelled call
    word,          \* the query word: a sequence of Unicode code points
    urlOk,         \* whether Url::parse_with_params accepts the request URL
    log,           \* the results of the send_with_ua calls made so far
    ret,           \* the value fetch_with_fallback returned
    body,          \* the value response.text() returned
    doc,           \* the element tree Html::parse_document built
    selectorOk,    \* whether Selector::parse accepts each pattern
    cells,         \* the OnceLock statics
    compiles,      \* how many times Selector::parse ran for each pattern
    phonetics,     \* parse_translation_from_html's local phonetics
    translations,  \* parse_translation_from_html's local translations
    output,        \* the value parse_translation_from_html returned
    tpc,           \* each thread's position inside cached_selector
    tcalls,        \* how many cached_selector calls each thread has made
    tret,          \* what each thread's last cached_selector call returned
    args,          \* the positional arguments of the process
    stdout,        \* lines written to standard output
    stderr,        \* lines written to standard error
    exitCode       \* the process's exit code (-1 while running)

fetchVars == <<urlOk, log, ret, body>>
parseVars == <<word, doc, phonetics, translations, output>>
cellVars  == <<selectorOk, cells, compiles>>
threadVars == <<tpc, tcalls, tret>>
mainVars  == <<args, stdout, stderr, exitCode>>
vars == <<pc, fetchVars, parseVars, cellVars, threadVars, mainVars>>

(***************************************************************************)
(* The network half: lib.rs lines 84-124 and 231-233.                      *)
(***************************************************************************)

PROJECT_USER_AGENT == "ydt"
BROWSER_USER_AGENT == "Mozilla"

\* The statuses a server may answer with: both ends of the 2xx range, its
\* neighbours, and the statuses the fallback policy names.
Statuses == {100, 199, 200, 204, 299, 300, 403, 404, 429, 500}

\* What the environment does to one send_with_ua call: the client builder
\* fails, the transport fails, or a response with some status arrives.
Env ==
    {[clientOk |-> FALSE, transportOk |-> FALSE, status |-> 0],
     [clientOk |-> TRUE, transportOk |-> FALSE, status |-> 0]}
    \cup {[clientOk |-> TRUE, transportOk |-> TRUE, status |-> s] : s \in Statuses}

Ok(ua, status) == [kind |-> "Ok", ua |-> ua, status |-> status]
Err(kind, ua, status) == [kind |-> kind, ua |-> ua, status |-> status]

\* build_client: the builder's outcome, mapped to CreateHttpClient.
build_client(ua, e) ==
    IF e.clientOk THEN Ok(ua, 0) ELSE Err("CreateHttpClient", ua, 0)

\* send_with_ua: the client first, then the URL, then the request itself.
send_with_ua(ua, e, url_ok) ==
    IF build_client(ua, e).kind # "Ok" THEN build_client(ua, e)
    ELSE IF ~url_ok THEN Err("BuildRequestUrl", ua, 0)
    ELSE IF ~e.transportOk THEN Err("FetchTranslation", ua, 0)
    ELSE Ok(ua, e.status)

\* StatusCode::is_success
is_success(status) == 200 <= status /\ status <= 299

\* ensure_success_response
ensure_success_response(resp) ==
    IF is_success(resp.status) THEN resp
    ELSE Err("HttpStatus", resp.ua, resp.status)

\* The outer match of fetch_with_fallback: which results of the first
\* send_with_ua lead to a second one under the browser identity.
needs_fallbackOnly403(first) == first.kind = "Ok" /\ first.status = 403
needs_fallbackAnyFailure(first) == first.kind # "Ok" \/ ~is_success(first.status)
needs_fallbackNotOnErr(first) ==
    first.kind = "Ok" /\ (first.status = 403 \/ first.status = 429)
needs_fallback(first) ==
    IF first.kind = "Ok"
    THEN first.status = 403 \/ first.status = 429
    ELSE TRUE

\* The `?` on the second send_with_ua, then ensure_success_response.
fallback_result(second) ==
    IF second.kind = "Ok" THEN ensure_success_response(second) ELSE second

\* fetch_with_fallback line 109: the first send, under the project identity.
FirstSend ==
    /\ pc = "fetch"
    /\ \E e \in Env : log' = <<send_with_ua(PROJECT_USER_AGENT, e, urlOk)>>
    /\ pc' = "matched"
    /\ UNCHANGED <<urlOk, ret, body, parseVars, cellVars, threadVars, mainVars>>

\* Lines 115-117: the first response is validated as it is.
ReturnFirst ==
    /\ pc = "matched"
    /\ ~needs_fallback(log[1])
    /\ ret' = ensure_success_response(log[1])
    /\ pc' = "fetched"
    /\ UNCHANGED <<urlOk, log, body, parseVars, cellVars, threadVars, mainVars>>

\* Lines 113-114 and 120-121: the second send, under the browser identity.
SecondSend ==
    /\ pc = "matched"
    /\ needs_fallback(log[1])
    /\ \E e \in Env :
          /\ log' = Append(log, send_with_ua(BROWSER_USER_AGENT, e, urlOk))
          /\ ret' = fallback_result(send_with_ua(BROWSER_USER_AGENT, e, urlOk))
    /\ pc' = "fetched"
    /\ UNCHANGED <<urlOk, body, parseVars, cellVars, threadVars, mainVars>>

\* get_translation line 232: the `?` on fetch_with_fallback.
FetchFailed ==
    /\ pc = "fetched"
    /\ ret.kind # "Ok"
    /\ pc' = "done"
    /\ UNCHANGED <<fetchVars, parseVars, cellVars, threadVars, mainVars>>

\* get_translation line 233: response.text(), which may fail with ReadResponse.
ReadBody ==
    /\ pc = "fetched"
    /\ ret.kind = "Ok"
    /\ \E readable \in BOOLEAN :
          body' = IF readable THEN ret ELSE Err("ReadResponse", ret.ua, 0)
    /\ pc' = "done"
    /\ UNCHANGED <<urlOk, log, ret, parseVars, cellVars, threadVars, mainVars>>

(***************************************************************************)
(* The selector cache: lib.rs lines 22-30 and 126-134.                     *)
(***************************************************************************)

\* The nine OnceLock statics, each with the pattern its call site passes.
Pattern ==
    [WORD_EXP_CE_SELECTOR |-> [css |-> "li.word-exp-ce.mcols-layout", tag |-> "li",
                               classes |-> {"word-exp-ce", "mcols-layout"}],
     POINT_SELECTOR |-> [css |-> "a.point", tag |-> "a", classes |-> {"point"}],
     TRANS_CONTAINER_SELECTOR |-> [css |-> "div.trans-container", tag |-> "div",
                                   classes |-> {"trans-container"}],
     PHONE_SELECTOR |-> [css |-> "div.per-phone", tag |-> "div",
                         classes |-> {"per-phone"}],
     SPAN_SELECTOR |-> [css |-> "span", tag |-> "span", classes |-> {}],
     PHONETIC_SELECTOR |-> [css |-> "span.phonetic", tag |-> "span",
                            classes |-> {"phonetic"}],
     WORD_EXP_SELECTOR |-> [css |-> "li.word-exp", tag |-> "li",
                            classes |-> {"word-exp"}],
     POS_SELECTOR |-> [css |-> "span.pos", tag |-> "span", classes |-> {"pos"}],
     TRANS_SELECTOR |-> [css |-> "span.trans", tag |-> "span", classes |-> {"trans"}]]

Statics == DOMAIN Pattern

\* OnceLock::new()
Uninit == [state |-> "incomplete", ok |-> FALSE]

\* The closure of get_or_init: Selector::parse(css) with its error mapped.
init_closureDropsErr(c) ==
    IF selectorOk[c] THEN [state |-> "complete", ok |-> TRUE] ELSE Uninit
init_closure(c) == [state |-> "complete", ok |-> selectorOk[c]]

\* The match after get_or_init: a reference to the selector, or
\* ParseCssSelector naming the pattern.
cached_selector_result(cell, c) ==
    IF cell.ok THEN [kind |-> "Ok", text |-> <<Pattern[c].css>>]
    ELSE [kind |-> "ParseCssSelector", text |-> <<Pattern[c].css>>]

\* The cached_selector calls of one parse, in order, each followed by `?`:
\* the cells and compilation counts they leave, and the first static whose
\* call returned an error ("none" when none did).
RECURSIVE acquire(_, _, _)
acquire(names, cs, cnt) ==
    IF names = <<>> THEN [cells |-> cs, compiles |-> cnt, failed |-> "none"]
    ELSE LET c == Head(names)
             ran == cs[c].state # "complete"
             cs2 == IF ran THEN [cs EXCEPT ![c] = init_closure(c)] ELSE cs
             cnt2 == IF ran THEN [cnt EXCEPT ![c] = @ + 1] ELSE cnt
         IN IF cached_selector_result(cs2[c], c).kind = "Ok"
            THEN acquire(Tail(names), cs2, cnt2)
            ELSE [cells |-> cs2, compiles |-> cnt2, failed |-> c]

(***************************************************************************)
(* The extractor: lib.rs lines 69-82 and 159-223.                          *)
(***************************************************************************)

\* contains_cjk_ideograph: the ten ranges, as code points.
is_ideograph(ch) ==
    \/ (13312 <= ch /\ ch <= 19903)      \* 3400..4DBF
    \/ (19968 <= ch /\ ch <= 40959)      \* 4E00..9FFF
    \/ (63744 <= ch /\ ch <= 64255)      \* F900..FAFF
    \/ (131072 <= ch /\ ch <= 173791)    \* 20000..2A6DF
    \/ (173824 <= ch /\ ch <= 177983)    \* 2A700..2B73F
    \/ (177984 <= ch /\ ch <= 178207)    \* 2B740..2B81F
    \/ (178208 <= ch /\ ch <= 183983)    \* 2B820..2CEAF
    \/ (183984 <= ch /\ ch <= 191471)    \* 2CEB0..2EBEF
    \/ (196608 <= ch /\ ch <= 201551)    \* 30000..3134F
    \/ (201552 <= ch /\ ch <= 205743)    \* 31350..323AF

contains_cjk_ideographAll(text) == \A i \in 1..Len(text) : is_ideograph(text[i])
contains_cjk_ideograph(text) == \E i \in 1..Len(text) : is_ideograph(text[i])

\* The statics each branch of parse_translation_from_html asks for, in order.
CjkStatics == <<"WORD_EXP_CE_SELECTOR", "POINT_SELECTOR">>
OtherStatics ==
    <<"TRANS_CONTAINER_SELECTOR", "PHONE_SELECTOR", "SPAN_SELECTOR",
      "PHONETIC_SELECTOR", "WORD_EXP_SELECTOR", "POS_SELECTOR", "TRANS_SELECTOR">>

\* A document is the element tree in document order: each element with its
\* tag, its classes, its depth, and the text directly inside it.
Node(tag, classes, depth, text) ==
    [tag |-> tag, classes |-> classes, depth |-> depth, text |-> text]

IsDescendant(d, i, j) == j > i /\ \A k \in (i + 1)..j : d[k].depth > d[i].depth

\* A compound selector tag.class1.class2 matches on the tag and every class.
Matches(c, n) == n.tag = Pattern[c].tag /\ Pattern[c].classes \subseteq n.classes

RECURSIVE Ascending(_)
Ascending(S) ==
    IF S = {} THEN <<>>
    ELSE LET m == CHOOSE x \in S : \A y \in S : x <= y
         IN <<m>> \o Ascending(S \ {m})

\* Html::select: every element of the document that matches, in document order.
Select(d, c) == Ascending({j \in 1..Len(d) : Matches(c, d[j])})

\* ElementRef::select: the matching descendants of element i, in document order.
SelectIn(d, i, c) ==
    Ascending({j \in 1..Len(d) : IsDescendant(d, i, j) /\ Matches(c, d[j])})

\* Iterator::nth, counting from 0; 0 stands for None.
nth(s, n) == IF n + 1 <= Len(s) THEN s[n + 1] ELSE 0

\* ElementRef::text().collect::<String>(): the text of the element and of
\* its descendants, in document order.
RECURSIVE text_from(_, _, _)
text_from(d, i, j) ==
    IF j > Len(d) \/ (j > i /\ ~IsDescendant(d, i, j)) THEN <<>>
    ELSE d[j].text \o text_from(d, i, j + 1)
text(d, i) == text_from(d, i, i)

IsSpace(t) == t \in {" ", "\n"}

\* str::trim
RECURSIVE trim_start(_)
trim_start(s) ==
    IF s # <<>> /\ IsSpace(Head(s)) THEN trim_start(Tail(s)) ELSE s
RECURSIVE trim_end(_)
trim_end(s) ==
    IF s # <<>> /\ IsSpace(s[Len(s)]) THEN trim_end(SubSeq(s, 1, Len(s) - 1)) ELSE s
trim(s) == trim_end(trim_start(s))

\* [String]::join
RECURSIVE join(_, _)
join(list, sep) ==
    IF list = <<>> THEN <<>>
    ELSE IF Len(list) = 1 THEN list[1]
    ELSE list[1] \o sep \o join(Tail(list), sep)

\* Lines 169-173: the text of the first a.point of each matching list item.
RECURSIVE point_texts(_, _)
point_texts(d, exps) ==
    IF exps = <<>> THEN <<>>
    ELSE LET word_text == nth(SelectIn(d, Head(exps), "POINT_SELECTOR"), 0)
         IN (IF word_text # 0 THEN <<text(d, word_text)>> ELSE <<>>)
            \o point_texts(d, Tail(exps))

\* Lines 185-193: "<label> <phonetic>" for each per-phone block that has a
\* first span and a first span.phonetic.
RECURSIVE phone_entries(_, _)
phone_entries(d, phone_divs) ==
    IF phone_divs = <<>> THEN <<>>
    ELSE LET label == nth(SelectIn(d, Head(phone_divs), "SPAN_SELECTOR"), 0)
             phonetic == nth(SelectIn(d, Head(phone_divs), "PHONETIC_SELECTOR"), 0)
         IN (IF label # 0 /\ phonetic # 0
             THEN <<trim(text(d, label)) \o <<" ">> \o trim(text(d, phonetic))>>
             ELSE <<>>)
            \o phone_entries(d, Tail(phone_divs))

\* Lines 197-206: "<pos>: <trans>" for each li.word-exp that has both.
RECURSIVE exp_entries(_, _)
exp_entries(d, exps) ==
    IF exps = <<>> THEN <<>>
    ELSE LET pos == nth(SelectIn(d, Head(exps), "POS_SELECTOR"), 0)
             trans == nth(SelectIn(d, Head(exps), "TRANS_SELECTOR"), 0)
         IN (IF pos # 0 /\ trans # 0
             THEN <<trim(text(d, pos)) \o <<":", " ">> \o trim(text(d, trans))>>
             ELSE <<>>)
            \o exp_entries(d, Tail(exps))

\* Lines 184 and 196: the positions of the two containers consumed.
PhoneticsContainerPos == 0
TranslationsContainerPos == 1

phonetics_of(d) ==
    LET container == nth(Select(d, "TRANS_CONTAINER_SELECTOR"), PhoneticsContainerPos)
    IN IF container = 0 THEN <<>>
       ELSE phone_entries(d, SelectIn(d, container, "PHONE_SELECTOR"))

translations_ofFirstContainer(d) ==
    LET container == nth(Select(d, "TRANS_CONTAINER_SELECTOR"), PhoneticsContainerPos)
    IN IF container = 0 THEN <<>>
       ELSE exp_entries(d, SelectIn(d, container, "WORD_EXP_SELECTOR"))
translations_of(d) ==
    LET container == nth(Select(d, "TRANS_CONTAINER_SELECTOR"), TranslationsContainerPos)
    IN IF container = 0 THEN <<>>
       ELSE exp_entries(d, SelectIn(d, container, "WORD_EXP_SELECTOR"))

NoResults == <<"No", " ", "results.">>

\* Lines 210-222: the final assembly.
assembleNoSeparator(ph, tr) ==
    IF ph = <<>> /\ tr = <<>> THEN NoResults
    ELSE join(ph, <<" ">>) \o join(tr, <<"\n">>)
assemble(ph, tr) ==
    IF ph = <<>> /\ tr = <<>> THEN NoResults
    ELSE LET phonetics_str == join(ph, <<" ">>)
             translations_str == join(tr, <<"\n">>)
         IN IF phonetics_str = <<>> THEN translations_str
            ELSE IF translations_str = <<>> THEN phonetics_str
            ELSE phonetics_str \o <<"\n">> \o translations_str

(***************************************************************************)
(* Inputs of parse_translation_from_html.                                  *)
(***************************************************************************)

MaxTop == 2        \* top-level fragments in a document

Container(children) ==
    <<Node("div", {"trans-container"}, 0, <<"\n">>)>> \o children
PerPhone(depth, children) ==
    <<Node("div", {"per-phone"}, depth, <<"\n">>)>> \o children
WordExp(depth, children) ==
    <<Node("li", {"word-exp"}, depth, <<"\n">>)>> \o children
CeItem(children) ==
    <<Node("li", {"word-exp-ce", "mcols-layout"}, 0, <<"\n">>)>> \o children

\* The top-level fragments documents are built from.
Fragments ==
    { \* a labelled phonetic, as in the crate's doc test
      Container(PerPhone(1, <<Node("span", {}, 2, <<" ", "UK", " ">>),
                              Node("span", {"phonetic"}, 2, <<"/hello/">>)>>)),
      \* a phonetic with no label span
      Container(PerPhone(1, <<Node("span", {"phonetic"}, 2, <<"/helo/">>)>>)),
      \* a label with no phonetic
      Container(PerPhone(1, <<Node("span", {}, 2, <<"US">>)>>)),
      \* a label and a phonetic that spell the fallback message
      Container(PerPhone(1, <<Node("span", {}, 2, <<"No">>),
                              Node("span", {"phonetic"}, 2, <<"results.">>)>>)),
      \* one complete entry
      Container(WordExp(1, <<Node("span", {"pos"}, 2, <<"int.">>),
                             Node("span", {"trans"}, 2, <<" ", "nihao", "\n">>)>>)),
      \* an entry with no translation
      Container(WordExp(1, <<Node("span", {"pos"}, 2, <<"n.">>)>>)),
      \* an empty container
      Container(<<>>),
      \* a container holding a phonetic and an entry
      Container(PerPhone(1, <<Node("span", {}, 2, <<"AU">>),
                              Node("span", {"phonetic"}, 2, <<"/halo/">>)>>)
                \o WordExp(1, <<Node("span", {"pos"}, 2, <<"v.">>),
                                Node("span", {"trans"}, 2, <<"wenhou">>)>>)),
      \* a container nested in a container
      Container(<<Node("div", {"trans-container"}, 1, <<>>)>>
                \o WordExp(2, <<Node("span", {"pos"}, 3, <<"adj.">>),
                                Node("span", {"trans"}, 3, <<"hao">>)>>)),
      \* Chinese-English items, as in the crate's tests
      CeItem(<<Node("a", {"point"}, 1, <<"study">>)>>),
      CeItem(<<Node("a", {"point"}, 1, <<"learn">>),
               Node("a", {"point"}, 1, <<"read">>)>>),
      CeItem(<<Node("a", {"point"}, 1, <<"No", " ", "results.">>)>>),
      CeItem(<<>>) }

RECURSIVE DocsOfLen(_)
DocsOfLen(k) ==
    IF k = 0 THEN {<<>>}
    ELSE {f \o d : f \in Fragments, d \in DocsOfLen(k - 1)}

Docs == UNION {DocsOfLen(k) : k \in 0..MaxTop}
SampleDocs == UNION {DocsOfLen(k) : k \in 0..1}

\* Code points on both sides of every range boundary, and a Latin letter.
BoundaryCodePoints ==
    {97, 13311, 13312, 19903, 19904, 19967, 19968, 40959, 40960,
     63743, 63744, 64255, 64256, 131071, 131072, 173791, 173792, 173823,
     173824, 177983, 177984, 178207, 178208, 183983, 183984, 191471, 191472,
     196607, 196608, 201551, 201552, 205743, 205744}

\* "hello" and the two-ideograph word of the tests, in short.
SampleWords == {<<104>>, <<23398, 20064>>}
Words ==
    {<<c>> : c \in BoundaryCodePoints}
    \cup {<<>>, <<97, 19968>>, <<19968, 97>>, <<97, 98>>} \cup SampleWords

AllAccepted == [c \in Statics |-> TRUE]
OneRejected == {[c \in Statics |-> c # bad] : bad \in Statics}

NoOutput == [kind |-> "none", text |-> <<>>]

FetchUnused == urlOk = TRUE /\ log = <<>> /\ ret = Err("none", "none", 0)
               /\ body = Err("none", "none", 0)
ParseUnused == word = <<>> /\ doc = <<>> /\ phonetics = <<>> /\ translations = <<>>
               /\ output = NoOutput
CellsUnused == selectorOk = AllAccepted /\ cells = [c \in Statics |-> Uninit]
               /\ compiles = [c \in Statics |-> 0]
ThreadsUnused == tpc = <<>> /\ tcalls = <<>> /\ tret = <<>>
MainUnused == args = <<>> /\ stdout = <<>> /\ stderr = <<>> /\ exitCode = -1

(***************************************************************************)
(* SpecParse: one call of parse_translation_from_html.                     *)
(***************************************************************************)

InitParse ==
    /\ pc = "parse"
    /\ \/ word \in SampleWords /\ doc \in Docs /\ selectorOk = AllAccepted
       \/ word \in Words /\ doc \in SampleDocs /\ selectorOk = AllAccepted
       \/ word \in SampleWords /\ doc \in SampleDocs /\ selectorOk \in OneRejected
    /\ phonetics = <<>> /\ translations = <<>> /\ output = NoOutput
    /\ cells = [c \in Statics |-> Uninit]
    /\ compiles = [c \in Statics |-> 0]
    /\ FetchUnused /\ ThreadsUnused /\ MainUnused

\* Line 164: the branch taken, as the statics it asks for.
statics_for(w) == IF contains_cjk_ideograph(w) THEN CjkStatics ELSE OtherStatics

\* Lines 165-167 and 175-182 when every cached_selector call succeeds.
Acquire ==
    /\ pc = "parse"
    /\ LET a == acquire(statics_for(word), cells, compiles)
       IN /\ a.failed = "none"
          /\ cells' = a.cells
          /\ compiles' = a.compiles
    /\ pc' = "extract"
    /\ UNCHANGED <<selectorOk, parseVars, fetchVars, threadVars, mainVars>>

\* The same lines when a cached_selector call fails: `?` returns its error.
AcquireFailed ==
    /\ pc = "parse"
    /\ LET a == acquire(statics_for(word), cells, compiles)
       IN /\ a.failed # "none"
          /\ cells' = a.cells
          /\ compiles' = a.compiles
          /\ output' = cached_selector_result(a.cells[a.failed], a.failed)
    /\ pc' = "done"
    /\ UNCHANGED <<selectorOk, word, doc, phonetics, translations, fetchVars,
                   threadVars, mainVars>>

\* Lines 169-173.
ExtractCjk ==
    /\ pc = "extract"
    /\ contains_cjk_ideograph(word)
    /\ translations' = point_texts(doc, Select(doc, "WORD_EXP_CE_SELECTOR"))
    /\ pc' = "assemble"
    /\ UNCHANGED <<word, doc, phonetics, output, cellVars, fetchVars, threadVars,
                   mainVars>>

\* Lines 184-207.
ExtractOther ==
    /\ pc = "extract"
    /\ ~contains_cjk_ideograph(word)
    /\ phonetics' = phonetics_of(doc)
    /\ translations' = translations_of(doc)
    /\ pc' = "assemble"
    /\ UNCHANGED <<word, doc, output, cellVars, fetchVars, threadVars, mainVars>>

\* Lines 210-222.
Assemble ==
    /\ pc = "assemble"
    /\ output' = [kind |-> "Ok", text |-> assemble(phonetics, translations)]
    /\ pc' = "done"
    /\ UNCHANGED <<word, doc, phonetics, translations, cellVars, fetchVars,
                   threadVars, mainVars>>

NextParse == Acquire \/ AcquireFailed \/ ExtractCjk \/ ExtractOther \/ Assemble

SpecParse == InitParse /\ [][NextParse]_vars

(***************************************************************************)
(* SpecFetch: one call of get_translation up to the response body.         *)
(***************************************************************************)

InitFetch ==
    /\ pc = "fetch"
    /\ urlOk \in BOOLEAN
    /\ log = <<>>
    /\ ret = Err("none", "none", 0)
    /\ body = Err("none", "none", 0)
    /\ ParseUnused /\ CellsUnused /\ ThreadsUnused /\ MainUnused

NextFetch == FirstSend \/ ReturnFirst \/ SecondSend \/ FetchFailed \/ ReadBody

SpecFetch == InitFetch /\ [][NextFetch]_vars

Returned == pc \in {"fetched", "done"}
Blocked(r) == r.kind = "Ok" /\ r.status \in {403, 429}
TwoHundreds(r) == r.kind = "Ok" /\ r.status \in 200..299

\* What the caller gets when the second send decides: the second response
\* itself on 2xx, HttpStatus with the second response's status otherwise.
DecidedBySecond ==
    /\ Len(log) = 2
    /\ log[1].ua = PROJECT_USER_AGENT
    /\ log[2].ua = BROWSER_USER_AGENT
    /\ log[2].kind = "Ok" =>
          IF log[2].status \in 200..299
          THEN ret = log[2] /\ (pc = "done" /\ body.kind = "Ok" => body = log[2])
          ELSE ret = [kind |-> "HttpStatus", ua |-> BROWSER_USER_AGENT,
                      status |-> log[2].status]

\* C1: when the first response has status 403 or 429, exactly one further
\* send is made, under the browser identity, and the second response alone
\* decides: 2xx returns it (and its body is the one read), any other status,
\* 403 and 429 included, fails with HttpStatus of that status; there is no
\* third send.
C1_BlockedStatusRetriedOnce ==
    (Len(log) >= 1 /\ Blocked(log[1])) =>
        /\ Len(log) <= 2
        /\ Returned => DecidedBySecond

C1_Witness ==
    /\ pc = "done"
    /\ Len(log) = 2
    /\ log[1].kind = "Ok" /\ log[1].status = 429
    /\ log[2].kind = "Ok" /\ log[2].status = 200
    /\ body = log[2]

\* C2: a first response that is neither 2xx nor 403 nor 429 fails at once
\* with HttpStatus of exactly that status, and nothing is ever sent under
\* the browser identity.
C2_OtherStatusFailsAtOnce ==
    (Len(log) >= 1 /\ log[1].kind = "Ok" /\ ~TwoHundreds(log[1]) /\ ~Blocked(log[1])) =>
        /\ Len(log) = 1
        /\ log[1].ua = PROJECT_USER_AGENT
        /\ Returned => ret = [kind |-> "HttpStatus", ua |-> PROJECT_USER_AGENT,
                              status |-> log[1].status]
        /\ pc = "done" => body.kind = "none"

C2_Witness ==
    /\ pc = "done"
    /\ Len(log) = 1
    /\ log[1].kind = "Ok" /\ log[1].status = 404
    /\ ret.kind = "HttpStatus" /\ ret.status = 404

\* C3: when the first send fails at the transport level, exactly one retry
\* is made under the browser identity; a second transport failure fails with
\* FetchTranslation, and a second response is validated by its status, with
\* no further send.
C3_TransportFailureRetriedOnce ==
    (Len(log) >= 1 /\ log[1].kind = "FetchTranslation") =>
        /\ Len(log) <= 2
        /\ Returned =>
              /\ DecidedBySecond
              /\ log[2].kind = "FetchTranslation" => ret.kind = "FetchTranslation"

C3_Witness ==
    /\ pc = "done"
    /\ Len(log) = 2
    /\ log[1].kind = "FetchTranslation"
    /\ log[2].kind = "FetchTranslation"
    /\ ret.kind = "FetchTranslation"

\* C10: a second send is made only after a transport failure or a 403 or
\* 429; a first send that fails with CreateHttpClient or BuildRequestUrl
\* is returned to the caller as that error, with no second send.
C10_ConstructionFailureNotRetried ==
    (Len(log) >= 1 /\ log[1].kind \in {"CreateHttpClient", "BuildRequestUrl"}) =>
        /\ Len(log) = 1
        /\ Returned => ret.kind = log[1].kind

(***************************************************************************)
(* Claims about parse_translation_from_html, under SpecParse.              *)
(***************************************************************************)

Extracted == pc \in {"assemble", "done"} /\ output.kind # "ParseCssSelector"
Finished == pc = "done" /\ output.kind = "Ok"

HasClass(j, tag, class) == doc[j].tag = tag /\ class \in doc[j].classes
Inside(i, tag, class) ==
    {j \in 1..Len(doc) : IsDescendant(doc, i, j) /\ HasClass(j, tag, class)}
Spans(i) == {j \in 1..Len(doc) : IsDescendant(doc, i, j) /\ doc[j].tag = "span"}
Least(S) == CHOOSE x \in S : \A y \in S : x <= y

\* The translation containers of the document, in document order.
Containers == Ascending({j \in 1..Len(doc) : HasClass(j, "div", "trans-container")})

\* The ideograph ranges of the specification: Extension A, the basic block,
\* the compatibility ideographs, and the supplementary-plane extensions.
IdeographRanges ==
    {<<13312, 19903>>, <<19968, 40959>>, <<63744, 64255>>, <<131072, 173791>>,
     <<173824, 177983>>, <<177984, 178207>>, <<178208, 183983>>,
     <<183984, 191471>>, <<196608, 201551>>, <<201552, 205743>>}
IsCjkWord ==
    \E i \in 1..Len(word) : \E r \in IdeographRanges : r[1] <= word[i] /\ word[i] <= r[2]

Touched == {c \in Statics : cells[c].state # "incomplete"}

\* The list items Strategy A reads: those of both classes that hold an a.point.
CeItemsWithPoint ==
    Ascending({j \in 1..Len(doc) :
                  /\ HasClass(j, "li", "word-exp-ce")
                  /\ HasClass(j, "li", "mcols-layout")
                  /\ Inside(j, "a", "point") # {}})

\* The assembly the specification describes, for lists ph and tr.
Described(ph, tr) ==
    IF join(ph, <<" ">>) = <<>> THEN join(tr, <<"\n">>)
    ELSE IF join(tr, <<"\n">>) = <<>> THEN join(ph, <<" ">>)
    ELSE join(ph, <<" ">>) \o <<"\n">> \o join(tr, <<"\n">>)

C5_Rules ==
    /\ (phonetics = <<>> /\ translations = <<>>) => output.text = NoResults
    /\ ~(phonetics = <<>> /\ translations = <<>>) =>
          output.text = Described(phonetics, translations)

\* C5 as stated: the assembly rules, and "No results." is returned only
\* when both lists are empty.
C5_NoResultsOnlyWhenBothEmpty ==
    Finished =>
        /\ C5_Rules
        /\ output.text = NoResults => (phonetics = <<>> /\ translations = <<>>)

\* C5 as amended: the assembly rules hold for every pair of lists; "No
\* results." is returned when both lists are empty, and otherwise only when
\* the joined entries themselves spell it.
C5_AssemblyRules ==
    Finished =>
        /\ C5_Rules
        /\ output.text = NoResults =>
              \/ phonetics = <<>> /\ translations = <<>>
              \/ Described(phonetics, translations) = NoResults

C5_Witness ==
    /\ Finished
    /\ phonetics # <<>>
    /\ translations # <<>>
    /\ output.text = <<"UK", " ", "/hello/", "\n", "int.", ":", " ", "nihao">>

\* C6: the strategy depends only on the word's code points. A word with an
\* ideograph runs only Strategy A: no phonetics, and the translations are
\* the texts of the first a.point of each li.word-exp-ce.mcols-layout, in
\* document order, whatever the translation containers hold. Any other word
\* runs only Strategy B, to which the Chinese-English items give nothing.
C6_StrategyByCodePoints ==
    IF IsCjkWord
    THEN /\ Touched \subseteq {"WORD_EXP_CE_SELECTOR", "POINT_SELECTOR"}
         /\ pc = "extract" => Touched = {"WORD_EXP_CE_SELECTOR", "POINT_SELECTOR"}
         /\ Extracted =>
               /\ phonetics = <<>>
               /\ Len(translations) = Len(CeItemsWithPoint)
               /\ \A n \in 1..Len(translations) :
                     translations[n] =
                         text(doc, Least(Inside(CeItemsWithPoint[n], "a", "point")))
    ELSE /\ Touched \cap {"WORD_EXP_CE_SELECTOR", "POINT_SELECTOR"} = {}
         /\ pc = "extract" =>
               Touched = Statics \ {"WORD_EXP_CE_SELECTOR", "POINT_SELECTOR"}
         /\ (Extracted /\ Containers = <<>>) =>
               phonetics = <<>> /\ translations = <<>>
         /\ (Finished /\ Containers = <<>>) => output.text = NoResults

C6_Witness ==
    /\ Finished
    /\ word = <<23398, 20064>>
    /\ Containers # <<>>
    /\ Len(CeItemsWithPoint) = 1
    /\ translations = << <<"learn">> >>
    /\ output.text = <<"learn">>

\* A per-phone block has a label when it holds a span that is not the
\* phonetic one, and a phonetic when it holds a span.phonetic.
HasLabel(b) == \E j \in Spans(b) : "phonetic" \notin doc[j].classes
HasPhonetic(b) == Inside(b, "span", "phonetic") # {}

\* C7: in Strategy B an entry is appended for a per-phone block of the
\* container at position 0 only if the block has both a label and a
\* phonetic; a block missing either, such as one whose only span is the
\* span.phonetic element, adds nothing.
C7_BlockMissingPieceSkipped ==
    (Extracted /\ ~IsCjkWord /\ Containers # <<>>) =>
        Len(phonetics) =
            Cardinality({b \in Inside(Containers[1], "div", "per-phone") :
                            HasLabel(b) /\ HasPhonetic(b)})

\* C8: in Strategy B with k translation containers, phonetics come only
\* from per-phone blocks inside the container at position 0 and
\* translations only from li.word-exp entries inside the container at
\* position 1; with k < 2 the list whose container is absent stays empty,
\* the call succeeds, and a lone phonetics container gives exactly the
\* phonetics line, with no newline after it.
C8_ContainersByPosition ==
    (Extracted /\ ~IsCjkWord) =>
        /\ Len(Containers) < 1 => phonetics = <<>>
        /\ Len(Containers) < 2 => translations = <<>>
        /\ \A n \in 1..Len(phonetics) :
              \E b \in Inside(Containers[1], "div", "per-phone") :
                 \E l \in Spans(b) : \E p \in Inside(b, "span", "phonetic") :
                    phonetics[n] = trim(text(doc, l)) \o <<" ">> \o trim(text(doc, p))
        /\ \A n \in 1..Len(translations) :
              \E e \in Inside(Containers[2], "li", "word-exp") :
                 \E x \in Inside(e, "span", "pos") : \E y \in Inside(e, "span", "trans") :
                    translations[n] =
                        trim(text(doc, x)) \o <<":", " ">> \o trim(text(doc, y))
        /\ pc = "done" => output.kind = "Ok"
        /\ (pc = "done" /\ Len(Containers) < 2 /\ phonetics # <<>>) =>
              /\ output.text = join(phonetics, <<" ">>)
              /\ output.text[Len(output.text)] # "\n"

C8_Witness ==
    /\ Finished
    /\ ~IsCjkWord
    /\ Len(Containers) = 1
    /\ Len(doc) > 4
    /\ output.text = <<"UK", " ", "/hello/">>

(***************************************************************************)
(* SpecCache: threads calling cached_selector concurrently.                *)
(*                                                                         *)
(* OnceLock::get_or_init returns the stored value when the cell is         *)
(* complete; otherwise one caller takes the cell (incomplete -> running),  *)
(* runs the closure and stores its value (running -> complete), while the  *)
(* other callers of that cell wait until it is complete.                   *)
(***************************************************************************)

NumThreads == 2     \* concurrent callers
MaxCalls == 2       \* cached_selector calls per caller

Threads == 1..NumThreads

\* The statics the callers share here: the two of Strategy A.
CacheStatics == {"WORD_EXP_CE_SELECTOR", "POINT_SELECTOR"}

Idle == [at |-> "idle", cell |-> "none"]
NoReturn == [kind |-> "none", text |-> <<>>, cell |-> "none"]

InitCache ==
    /\ pc = "threads"
    /\ selectorOk \in {AllAccepted} \cup
                      {[c \in Statics |-> c # bad] : bad \in CacheStatics}
    /\ cells = [c \in Statics |-> Uninit]
    /\ compiles = [c \in Statics |-> 0]
    /\ tpc = [t \in Threads |-> Idle]
    /\ tcalls = [t \in Threads |-> 0]
    /\ tret = [t \in Threads |-> NoReturn]
    /\ FetchUnused /\ ParseUnused /\ MainUnused

\* Line 126: a thread enters cached_selector for one of the statics.
Enter(t, c) ==
    /\ tpc[t].at = "idle"
    /\ tcalls[t] < MaxCalls
    /\ tpc' = [tpc EXCEPT ![t] = [at |-> "get_or_init", cell |-> c]]
    /\ tcalls' = [tcalls EXCEPT ![t] = @ + 1]
    /\ UNCHANGED <<pc, tret, cellVars, fetchVars, parseVars, mainVars>>

\* Line 130, get_or_init on a complete cell: the stored value is returned.
FastPath(t) ==
    /\ tpc[t].at = "get_or_init"
    /\ cells[tpc[t].cell].state = "complete"
    /\ tpc' = [tpc EXCEPT ![t].at = "match"]
    /\ UNCHANGED <<pc, tcalls, tret, cellVars, fetchVars, parseVars, mainVars>>

\* Line 130, get_or_init on an incomplete cell: this caller takes it.
TakeCell(t) ==
    /\ tpc[t].at = "get_or_init"
    /\ cells[tpc[t].cell].state = "incomplete"
    /\ cells' = [cells EXCEPT ![tpc[t].cell].state = "running"]
    /\ tpc' = [tpc EXCEPT ![t].at = "closure"]
    /\ UNCHANGED <<pc, tcalls, tret, selectorOk, compiles, fetchVars, parseVars,
                   mainVars>>

\* Line 130, the closure: Selector::parse runs and its result is stored.
RunClosure(t) ==
    /\ tpc[t].at = "closure"
    /\ cells' = [cells EXCEPT ![tpc[t].cell] = init_closure(tpc[t].cell)]
    /\ compiles' = [compiles EXCEPT ![tpc[t].cell] = @ + 1]
    /\ tpc' = [tpc EXCEPT ![t].at = "match"]
    /\ UNCHANGED <<pc, tcalls, tret, selectorOk, fetchVars, parseVars, mainVars>>

\* Lines 131-132: the match on the stored result.
Return(t) ==
    /\ tpc[t].at = "match"
    /\ tret' = [tret EXCEPT ![t] =
                   [kind |-> cached_selector_result(cells[tpc[t].cell], tpc[t].cell).kind,
                    text |-> cached_selector_result(cells[tpc[t].cell], tpc[t].cell).text,
                    cell |-> tpc[t].cell]]
    /\ tpc' = [tpc EXCEPT ![t] = Idle]
    /\ UNCHANGED <<pc, tcalls, cellVars, fetchVars, parseVars, mainVars>>

NextCache ==
    \E t \in Threads :
       \/ \E c \in CacheStatics : Enter(t, c)
       \/ FastPath(t)
       \/ TakeCell(t)
       \/ RunClosure(t)
       \/ Return(t)

SpecCache == InitCache /\ [][NextCache]_vars

\* What every state of the cache satisfies: no pattern is compiled twice,
\* a complete cell holds the result of its one compilation, and every
\* value returned is the cell's: the selector, or ParseCssSelector naming
\* the cell's pattern when the compilation failed.
CacheState ==
    /\ \A c \in Statics :
          /\ compiles[c] <= 1
          /\ cells[c].state = "complete" =>
                compiles[c] = 1 /\ cells[c].ok = selectorOk[c]
    /\ \A t \in DOMAIN tret :
          tret[t].kind # "none" =>
             /\ cells[tret[t].cell].state = "complete"
             /\ tret[t].text = <<Pattern[tret[t].cell].css>>
             /\ tret[t].kind =
                   (IF selectorOk[tret[t].cell] THEN "Ok" ELSE "ParseCssSelector")

\* What every step keeps: a complete cell never changes, and nothing is
\* compiled for it again.
CacheStep ==
    \A c \in Statics :
       cells[c].state = "complete" =>
          cells'[c] = cells[c] /\ compiles'[c] = compiles[c]

\* C4: for each static, across any calls of cached_selector from any
\* threads, Selector::parse runs at most once; once the cell is initialized
\* its value never changes; and when that one compilation failed every
\* caller gets ParseCssSelector naming the same pattern, with no second
\* compilation.
C4_CompiledAtMostOnce == [](CacheState) /\ [][CacheStep]_vars

C4_Witness ==
    /\ \A t \in Threads :
          /\ tcalls[t] = MaxCalls
          /\ tpc[t].at = "idle"
          /\ tret[t].kind = "ParseCssSelector"
          /\ tret[t].cell = "POINT_SELECTOR"
    /\ compiles["POINT_SELECTOR"] = 1
    /\ compiles["WORD_EXP_CE_SELECTOR"] = 1

(***************************************************************************)
(* SpecMain: the binary, main.rs. Its functions return String: an error is *)
(* its message, and get_translation returns the message or the result.     *)
(***************************************************************************)

MOk(ua, status) == [kind |-> "Ok", ua |-> ua, status |-> status, msg |-> <<>>]
MErr(msg) == [kind |-> "Err", ua |-> "none", status |-> 0, msg |-> msg]
MNone == [kind |-> "none", ua |-> "none", status |-> 0, msg |-> <<>>]

\* main.rs build_client and send_with_ua, lines 43-59.
main_send_with_ua(ua, e, url_ok) ==
    IF ~e.clientOk THEN MErr(<<"Failed to create HTTP client.">>)
    ELSE IF ~url_ok THEN MErr(<<"Failed to build request URL.">>)
    ELSE IF ~e.transportOk THEN MErr(<<"Failed to fetch translation.">>)
    ELSE MOk(ua, e.status)

\* main.rs ensure_success_response, lines 61-68.
main_ensure_success_response(resp) ==
    IF is_success(resp.status) THEN resp
    ELSE MErr(<<"Request failed with status: ", ToString(resp.status)>>)

\* main.rs fetch_with_fallback, lines 70-86: what it returns given what the
\* first send returned and what a second send would return.
main_fetch_with_fallback(first, second) ==
    IF first.kind = "Ok"
    THEN IF first.status = 403 \/ first.status = 429
         THEN IF second.kind = "Ok" THEN main_ensure_success_response(second)
              ELSE second
         ELSE main_ensure_success_response(first)
    ELSE IF second.kind = "Ok" THEN main_ensure_success_response(second)
         ELSE second

\* Whether fetch_with_fallback makes the second send at all.
main_sends_twice(first) ==
    first.kind # "Ok" \/ first.status = 403 \/ first.status = 429

\* main.rs get_translation, lines 111-200: the extraction, returning the
\* display string or the message of a selector error.
main_extract(w, d) ==
    LET a == acquire(statics_for(w), cells, compiles)
    IN IF a.failed # "none"
       THEN <<"Failed to parse CSS selector: ", Pattern[a.failed].css>>
       ELSE IF contains_cjk_ideograph(w)
       THEN assemble(<<>>, point_texts(d, Select(d, "WORD_EXP_CE_SELECTOR")))
       ELSE assemble(phonetics_of(d), translations_of(d))

Usage == <<"Please provide a word to translate">>

\* env::args(): the program name, then the positional arguments.
ArgLists == {<<"ydt">>, <<"ydt", "hello">>, <<"ydt", "xuexi">>, <<"ydt", "hello", "extra">>}

\* The word an argument stands for, as code points.
WordOf(arg) == IF arg = "xuexi" THEN <<23398, 20064>> ELSE <<104>>

InitMain ==
    /\ pc = "main"
    /\ args \in ArgLists
    /\ urlOk = TRUE
    /\ stdout = <<>> /\ stderr = <<>> /\ exitCode = -1
    /\ log = <<>> /\ ret = MNone /\ body = MNone
    /\ ParseUnused /\ CellsUnused /\ ThreadsUnused

\* main, lines 204-208: no word given.
MainUsage ==
    /\ pc = "main"
    /\ Len(args) < 2
    /\ stderr' = Append(stderr, Usage)
    /\ exitCode' = 0
    /\ pc' = "exited"
    /\ UNCHANGED <<args, stdout, fetchVars, parseVars, cellVars, threadVars>>

\* main line 209 calls get_translation, whose line 101 calls
\* fetch_with_fallback: one send, or two.
MainFetch ==
    /\ pc = "main"
    /\ Len(args) >= 2
    /\ word' = WordOf(args[2])
    /\ \E e1 \in Env, e2 \in Env :
          LET first == main_send_with_ua(PROJECT_USER_AGENT, e1, urlOk)
              second == main_send_with_ua(BROWSER_USER_AGENT, e2, urlOk)
          IN /\ log' = IF main_sends_twice(first) THEN <<first, second>> ELSE <<first>>
             /\ ret' = main_fetch_with_fallback(first, second)
    /\ pc' = "fetched"
    /\ UNCHANGED <<urlOk, body, doc, phonetics, translations, output, cellVars,
                   threadVars, mainVars>>

\* get_translation lines 101-109: an error message is returned as the
\* result; otherwise the body is read, and a failure to read it is a message.
MainRead ==
    /\ pc = "fetched"
    /\ IF ret.kind = "Err"
       THEN /\ output' = [kind |-> "String", text |-> ret.msg]
            /\ UNCHANGED <<body, doc>>
       ELSE \E readable \in BOOLEAN :
               IF readable
               THEN /\ body' = ret
                    /\ doc' \in SampleDocs
                    /\ UNCHANGED output
               ELSE /\ body' = MErr(<<"Failed to read response.">>)
                    /\ output' = [kind |-> "String", text |-> <<"Failed to read response.">>]
                    /\ UNCHANGED doc
    /\ pc' = IF ret.kind = "Ok" /\ body'.kind = "Ok" THEN "parse" ELSE "print"
    /\ UNCHANGED <<urlOk, log, ret, word, phonetics, translations, cellVars,
                   threadVars, mainVars>>

\* get_translation lines 111-200.
MainExtract ==
    /\ pc = "parse"
    /\ output' = [kind |-> "String", text |-> main_extract(word, doc)]
    /\ cells' = acquire(statics_for(word), cells, compiles).cells
    /\ compiles' = acquire(statics_for(word), cells, compiles).compiles
    /\ pc' = "print"
    /\ UNCHANGED <<selectorOk, word, doc, phonetics, translations, fetchVars,
                   threadVars, mainVars>>

\* main line 209: println! of whatever get_translation returned; main then
\* returns, and the process exits with code 0.
MainPrint ==
    /\ pc = "print"
    /\ stdout' = Append(stdout, output.text)
    /\ exitCode' = 0
    /\ pc' = "exited"
    /\ UNCHANGED <<args, stderr, fetchVars, parseVars, cellVars, threadVars>>

NextMain == MainUsage \/ MainFetch \/ MainRead \/ MainExtract \/ MainPrint

SpecMain == InitMain /\ [][NextMain]_vars

LookupFailed == ret.kind = "Err" \/ body.kind = "Err"

\* C9: without the word argument, a usage message goes to standard error
\* and the exit code is not zero; when the lookup reports an error, its
\* message goes to standard error and the exit code is 1; only a successful
\* lookup writes the result to standard output, with exit code 0.
C9_ProcessBoundary ==
    pc = "exited" =>
        IF Len(args) < 2
        THEN stderr # <<>> /\ stdout = <<>> /\ exitCode # 0
        ELSE IF LookupFailed
        THEN stderr = <<output.text>> /\ stdout = <<>> /\ exitCode = 1
        ELSE stdout = <<output.text>> /\ stderr = <<>> /\ exitCode = 0

====
